---- MODULE Spec2Model ----
(***************************************************************************)
(* Model of the prize draw of cenamoradoceutec/sorteo, Postgres variant    *)
(* (src/server.js with the schema of src/unnamed/part_000).                *)
(*                                                                         *)
(* Every POST /api/draw runs on a connection of its own.  Each awaited     *)
(* query of the handler is one step; the synchronous code that follows an  *)
(* await belongs to the same step.  The store is Postgres at READ          *)
(* COMMITTED: a query sees committed rows (plus the writes of its own      *)
(* transaction), an UPDATE keeps its row locked until the transaction      *)
(* ends, FOR UPDATE SKIP LOCKED passes over rows locked by others, and an  *)
(* INSERT on a unique key waits for an in-progress insert of the same key. *)
(*                                                                         *)
(* Numbers with a fraction (winRate, Math.random()) are in hundredths.     *)
(* A store failure makes one awaited query of the try block throw without  *)
(* effect; the transaction stays open (locks held) until the ROLLBACK of   *)
(* the catch block.  That ROLLBACK is a query too: when it throws (the     *)
(* connection is lost), or when pool.connect() rejects before the try      *)
(* block, the handler's promise rejects and no response is sent.           *)
(*                                                                         *)
(* Two further variants of the handler are modelled for comparison: the    *)
(* MySQL variant without a transaction (src/unnamed/part_001, SpecMySql,   *)
(* on the same variables) and the count-then-insert variant                *)
(* (src/unnamed/part_002, SpecCount, on variables of its own).             *)
(***************************************************************************)
EXTENDS Integers, FiniteSets, Sequences, TLC

\* ---------------------------------------------------------------- bounds
MaxReq == 2
MaxTokens == 2
MaxFailures == 1

\* ------------------------------------------------------------- constants
DEFAULT_WIN_RATE == 15

Devices == {"d1", "d2"}
\* req.body.deviceId: a device string, or "" (falsy, rejected with 400)
DeviceInputs == Devices \cup {""}
\* req.body.winRate: absent (<<>>, undefined) or a number <<n>> in hundredths
WinRateInputs == {<<>>, <<0>>, <<100>>}
\* values of Math.random(), in [0, 1), in hundredths
Randoms == {0, 50}

NULL == "null"
Requests == 1..MaxReq

VARIABLES
    tokens,     \* prize_tokens, committed: token id -> claimed_by (NULL = free)
    winners,    \* winners, committed: device_id -> number of rows
    pc,         \* position of each request's handler
    deviceId,   \* req.body.deviceId of each request
    rate,       \* the handler's rate
    luck,       \* the handler's luck
    claimed,    \* the handler's claimed
    txState,    \* transaction of the request's connection
    txToken,    \* token updated (and row-locked) by the transaction, 0 = none
    txWin,      \* the transaction holds an inserted winners row
    failedAt,   \* the await at which a query threw, "none" otherwise
    resp,       \* the response sent, NoResp before
    failures,   \* store failures so far
    \* the count-then-insert variant (part_002)
    cntWinners,   \* its winners table: device_id -> "none", "won" or "lost" row
    cntPrior,     \* won rows of devices that drew before
    cntPc,        \* position of each request's handler
    cntDeviceId,  \* req.body.deviceId
    winnersCount, \* the handler's winnersCount
    won,          \* the handler's won (prev.rows[0].won on the already path)
    cntResp       \* the response sent

pgVars == <<tokens, winners, pc, deviceId, rate, luck, claimed, txState,
            txToken, txWin, failedAt, resp, failures>>

cntVars == <<cntWinners, cntPrior, cntPc, cntDeviceId, winnersCount, won, cntResp>>

vars == <<pgVars, cntVars>>

\* ------------------------------------------------------------- responses
NoResp ==
    [status |-> 0, ok |-> FALSE, won |-> FALSE, reason |-> "", remaining |-> -1, error |-> ""]

Json(won_, reason_, remaining_) ==
    [status |-> 200, ok |-> TRUE, won |-> won_, reason |-> reason_,
     remaining |-> remaining_, error |-> ""]

ErrorJson(status_, error_) ==
    [status |-> status_, ok |-> FALSE, won |-> FALSE, reason |-> "",
     remaining |-> -1, error |-> error_]

\* --------------------------------------------------------------- helpers
\* the count without its WHERE clause: all rows of prize_tokens
getRemainingPrizesAllRows ==
    Cardinality(DOMAIN tokens)

\* SELECT COUNT(*) FROM prize_tokens WHERE claimed_by IS NULL, as seen by a
\* connection with no writes of its own pending on those rows
getRemainingPrizes ==
    Cardinality({t \in DOMAIN tokens : tokens[t] = NULL})

\* a prior-win check that never finds the row
hasWonBeforeNever(d) == FALSE

\* SELECT 1 FROM winners WHERE device_id = $1 LIMIT 1; rows.length > 0
hasWonBefore(d) == winners[d] > 0

\* const rate = Number.isFinite(Number(winRate)) ? Number(winRate) : DEFAULT_WIN_RATE
ParseRate(winRate) ==
    IF Len(winRate) = 0 THEN DEFAULT_WIN_RATE ELSE winRate[1]

\* !deviceId || typeof deviceId !== "string"
InvalidDeviceId(d) == d = ""

\* the gate compared with <= : a draw of 0 passes at rate 0
LuckOrEqual(rnd, rt) == rnd <= rt

\* const luck = Math.random() < rate
Luck(rnd, rt) == rnd < rt

\* the row of token t is locked by the open transaction of another request
LockedByOther(r, t) ==
    \E q \in Requests \ {r} : txState[q] = "open" /\ txToken[q] = t

\* the free rows read without FOR UPDATE: rows being claimed by others too
ClaimCandidatesUnlocked(r) ==
    {t \in DOMAIN tokens : tokens[t] = NULL}

\* the CTE without its WHERE clause: any row not locked, claimed or not
ClaimCandidatesAnyRow(r) ==
    {t \in DOMAIN tokens : ~LockedByOther(r, t)}

\* rows the CTE of tryClaimPrize can return: claimed_by IS NULL, not locked
ClaimCandidates(r) ==
    {t \in DOMAIN tokens : tokens[t] = NULL /\ ~LockedByOther(r, t)}

\* another open transaction has inserted a winners row for d, not yet committed
InsertInProgress(r, d) ==
    \E q \in Requests \ {r} :
        txState[q] = "open" /\ txWin[q] /\ deviceId[q] = d

\* a plain INSERT on a table without the key: a row is always inserted
InsertsRowAlways(d) == TRUE

\* INSERT ... ON CONFLICT (device_id) DO NOTHING: TRUE iff a row is inserted
InsertsRow(d) == winners[d] = 0

\* a COMMIT that does not persist the winners row
CommitWinnersLost(d, inserted) == winners

\* the winners table after COMMIT of a transaction for device d
CommitWinners(d, inserted) ==
    IF inserted THEN [winners EXCEPT ![d] = @ + 1] ELSE winners

\* a COMMIT that does not persist the claim
CommitTokensLost(t, d) == tokens

\* the prize_tokens table after COMMIT of a transaction that updated token t
CommitTokens(t, d) ==
    IF t = 0 THEN tokens ELSE [tokens EXCEPT ![t] = d]

\* ------------------------------------------------------------------ Init
\* the count-then-insert variant with no request
CountIdle ==
    /\ cntWinners = [d \in Devices |-> "none"]
    /\ cntPc = [r \in Requests |-> "idle"]
    /\ cntDeviceId = [r \in Requests |-> ""]
    /\ winnersCount = [r \in Requests |-> 0]
    /\ won = [r \in Requests |-> FALSE]
    /\ cntResp = [r \in Requests |-> NoResp]
    /\ cntPrior = 0

\* schema of part_000: the seeded tokens are all free, winners is empty
Init ==
    /\ \E n \in 1..MaxTokens : tokens = [t \in 1..n |-> NULL]
    /\ winners = [d \in Devices |-> 0]
    /\ pc = [r \in Requests |-> "idle"]
    /\ deviceId = [r \in Requests |-> ""]
    /\ rate = [r \in Requests |-> 0]
    /\ luck = [r \in Requests |-> FALSE]
    /\ claimed = [r \in Requests |-> FALSE]
    /\ txState = [r \in Requests |-> "none"]
    /\ txToken = [r \in Requests |-> 0]
    /\ txWin = [r \in Requests |-> FALSE]
    /\ failedAt = [r \in Requests |-> "none"]
    /\ resp = [r \in Requests |-> NoResp]
    /\ failures = 0
    /\ CountIdle

\* --------------------------------------------------------------- actions
\* requests are numbered in order of arrival
Receive(r) ==
    /\ pc[r] = "idle"
    /\ IF r = 1 THEN TRUE ELSE pc[r - 1] # "idle"
    /\ \E d \in DeviceInputs, w \in WinRateInputs :
        IF InvalidDeviceId(d)
        THEN /\ resp' = [resp EXCEPT ![r] = ErrorJson(400, "deviceId requerido")]
             /\ pc' = [pc EXCEPT ![r] = "done"]
             /\ UNCHANGED <<deviceId, rate>>
        ELSE /\ deviceId' = [deviceId EXCEPT ![r] = d]
             /\ rate' = [rate EXCEPT ![r] = ParseRate(w)]
             /\ pc' = [pc EXCEPT ![r] = "hasWon"]
             /\ UNCHANGED resp
    /\ UNCHANGED <<tokens, winners, luck, claimed, txState, txToken, txWin,
                   failedAt, failures>>
    /\ UNCHANGED cntVars

\* 1) hasWonBefore returns; 2) the gate is drawn in the same turn
CheckPriorWin(r) ==
    /\ pc[r] = "hasWon"
    /\ IF hasWonBefore(deviceId[r])
       THEN /\ pc' = [pc EXCEPT ![r] = "remAlready"]
            /\ UNCHANGED luck
       ELSE \E rnd \in Randoms :
            /\ luck' = [luck EXCEPT ![r] = Luck(rnd, rate[r])]
            /\ pc' = [pc EXCEPT ![r] = IF Luck(rnd, rate[r]) THEN "begin" ELSE "remLost"]
    /\ UNCHANGED <<tokens, winners, deviceId, rate, claimed, txState, txToken,
                   txWin, failedAt, resp, failures>>
    /\ UNCHANGED cntVars

RespondAlreadyWinner(r) ==
    /\ pc[r] = "remAlready"
    /\ resp' = [resp EXCEPT ![r] = Json(FALSE, "already_winner", getRemainingPrizes)]
    /\ pc' = [pc EXCEPT ![r] = "done"]
    /\ UNCHANGED <<tokens, winners, deviceId, rate, luck, claimed, txState,
                   txToken, txWin, failedAt, failures>>
    /\ UNCHANGED cntVars

RespondLost(r) ==
    /\ pc[r] = "remLost"
    /\ resp' = [resp EXCEPT ![r] = Json(FALSE, "", getRemainingPrizes)]
    /\ pc' = [pc EXCEPT ![r] = "done"]
    /\ UNCHANGED <<tokens, winners, deviceId, rate, luck, claimed, txState,
                   txToken, txWin, failedAt, failures>>
    /\ UNCHANGED cntVars

Begin(r) ==
    /\ pc[r] = "begin"
    /\ txState' = [txState EXCEPT ![r] = "open"]
    /\ pc' = [pc EXCEPT ![r] = "claim"]
    /\ UNCHANGED <<tokens, winners, deviceId, rate, luck, claimed, txToken,
                   txWin, failedAt, resp, failures>>
    /\ UNCHANGED cntVars

\* 3) the CTE picks any one candidate row and the UPDATE locks it
tryClaimPrize(r) ==
    /\ pc[r] = "claim"
    /\ IF ClaimCandidates(r) # {}
       THEN \E t \in ClaimCandidates(r) :
            /\ txToken' = [txToken EXCEPT ![r] = t]
            /\ claimed' = [claimed EXCEPT ![r] = TRUE]
            /\ pc' = [pc EXCEPT ![r] = "insert"]
       ELSE /\ claimed' = [claimed EXCEPT ![r] = FALSE]
            /\ pc' = [pc EXCEPT ![r] = "rollbackNoPrize"]
            /\ UNCHANGED txToken
    /\ UNCHANGED <<tokens, winners, deviceId, rate, luck, txState, txWin,
                   failedAt, resp, failures>>
    /\ UNCHANGED cntVars

\* if (!claimed) { ROLLBACK; no_prizes_left, remaining: 0 }
RollbackNoPrize(r) ==
    /\ pc[r] = "rollbackNoPrize"
    /\ txState' = [txState EXCEPT ![r] = "aborted"]
    /\ resp' = [resp EXCEPT ![r] = Json(FALSE, "no_prizes_left", 0)]
    /\ pc' = [pc EXCEPT ![r] = "done"]
    /\ UNCHANGED <<tokens, winners, deviceId, rate, luck, claimed, txToken,
                   txWin, failedAt, failures>>
    /\ UNCHANGED cntVars

\* 4) INSERT INTO winners ... ON CONFLICT DO NOTHING; waits while another
\* transaction's insert of the same device_id is in progress
InsertWinner(r) ==
    /\ pc[r] = "insert"
    /\ ~InsertInProgress(r, deviceId[r])
    /\ txWin' = [txWin EXCEPT ![r] = InsertsRow(deviceId[r])]
    /\ pc' = [pc EXCEPT ![r] = "commit"]
    /\ UNCHANGED <<tokens, winners, deviceId, rate, luck, claimed, txState,
                   txToken, failedAt, resp, failures>>
    /\ UNCHANGED cntVars

Commit(r) ==
    /\ pc[r] = "commit"
    /\ tokens' = CommitTokens(txToken[r], deviceId[r])
    /\ winners' = CommitWinners(deviceId[r], txWin[r])
    /\ txState' = [txState EXCEPT ![r] = "committed"]
    /\ pc' = [pc EXCEPT ![r] = "remWon"]
    /\ UNCHANGED <<deviceId, rate, luck, claimed, txToken, txWin, failedAt,
                   resp, failures>>
    /\ UNCHANGED cntVars

RespondWon(r) ==
    /\ pc[r] = "remWon"
    /\ resp' = [resp EXCEPT ![r] = Json(TRUE, "", getRemainingPrizes)]
    /\ pc' = [pc EXCEPT ![r] = "done"]
    /\ UNCHANGED <<tokens, winners, deviceId, rate, luck, claimed, txState,
                   txToken, txWin, failedAt, failures>>
    /\ UNCHANGED cntVars

\* the awaits of the try block
QueryStages ==
    {"hasWon", "remAlready", "remLost", "begin", "claim", "rollbackNoPrize",
     "insert", "commit", "remWon"}

\* the awaited query throws: control passes to the catch block
StoreFailure(r) ==
    /\ pc[r] \in QueryStages
    /\ failures < MaxFailures
    /\ failures' = failures + 1
    /\ failedAt' = [failedAt EXCEPT ![r] = pc[r]]
    /\ pc' = [pc EXCEPT ![r] = "catch"]
    /\ UNCHANGED <<tokens, winners, deviceId, rate, luck, claimed, txState,
                   txToken, txWin, resp>>
    /\ UNCHANGED cntVars

\* const client = await pool.connect() is outside the try block: when it
\* rejects, the handler's promise rejects, no query is sent and no response.
\* (The connect and the first query are one position of the handler.)
ConnectRejects(r) ==
    /\ pc[r] = "hasWon"
    /\ failures < MaxFailures
    /\ failures' = failures + 1
    /\ failedAt' = [failedAt EXCEPT ![r] = "connect"]
    /\ pc' = [pc EXCEPT ![r] = "rejected"]
    /\ UNCHANGED <<tokens, winners, deviceId, rate, luck, claimed, txState,
                   txToken, txWin, resp>>
    /\ UNCHANGED cntVars

\* the transaction status after ROLLBACK: an open transaction is aborted
\* (its writes discarded, its locks released), otherwise nothing changes
AfterRollback(st) == IF st = "open" THEN "aborted" ELSE st

\* catch (e) { ROLLBACK; 500 internal_error }
CatchRollback(r) ==
    /\ pc[r] = "catch"
    /\ txState' = [txState EXCEPT ![r] = AfterRollback(txState[r])]
    /\ resp' = [resp EXCEPT ![r] = ErrorJson(500, "internal_error")]
    /\ pc' = [pc EXCEPT ![r] = "done"]
    /\ UNCHANGED <<tokens, winners, deviceId, rate, luck, claimed, txToken,
                   txWin, failedAt, failures>>
    /\ UNCHANGED cntVars

\* the transaction of a connection that is lost: the server aborts it
AfterConnectionLost(st) == IF st = "open" THEN "aborted" ELSE st

\* the ROLLBACK of the catch block throws as well (the failure was a lost
\* connection): the rejection leaves the catch, finally releases the client,
\* the handler's promise rejects and no response is sent
CatchRollbackRejects(r) ==
    /\ pc[r] = "catch"
    /\ txState' = [txState EXCEPT ![r] = AfterConnectionLost(txState[r])]
    /\ pc' = [pc EXCEPT ![r] = "rejected"]
    /\ UNCHANGED <<tokens, winners, deviceId, rate, luck, claimed, txToken,
                   txWin, failedAt, resp, failures>>
    /\ UNCHANGED cntVars

\* -------------------------------------------------------- specifications
NextNoFail ==
    \E r \in Requests :
        \/ Receive(r)
        \/ CheckPriorWin(r)
        \/ RespondAlreadyWinner(r)
        \/ RespondLost(r)
        \/ Begin(r)
        \/ tryClaimPrize(r)
        \/ RollbackNoPrize(r)
        \/ InsertWinner(r)
        \/ Commit(r)
        \/ RespondWon(r)

Next ==
    \/ NextNoFail
    \/ \E r \in Requests : ConnectRejects(r)
    \/ \E r \in Requests : StoreFailure(r)
    \/ \E r \in Requests : CatchRollback(r)
    \/ \E r \in Requests : CatchRollbackRejects(r)

\* store failures possible
Spec == Init /\ [][Next]_vars

\* no store failure
SpecNoFail == Init /\ [][NextNoFail]_vars

\* a request arrives when every earlier request has been answered
ReceiveInTurn(r) ==
    /\ \A q \in Requests : q < r => pc[q] = "done"
    /\ Receive(r)

NextInTurn ==
    \E r \in Requests :
        \/ ReceiveInTurn(r)
        \/ CheckPriorWin(r)
        \/ RespondAlreadyWinner(r)
        \/ RespondLost(r)
        \/ Begin(r)
        \/ tryClaimPrize(r)
        \/ RollbackNoPrize(r)
        \/ InsertWinner(r)
        \/ Commit(r)
        \/ RespondWon(r)

\* requests issued one after the other, no store failure
SpecInTurn == Init /\ [][NextInTurn]_vars

\* ------------------------------------------------- MySQL variant (part_001)
\* The same handler without a transaction: every query is committed on its
\* own, and the catch block sends the error without undoing anything.

\* 1) hasWonBefore returns; 2) the gate; the claim is the next query
MySqlCheckPriorWin(r) ==
    /\ pc[r] = "hasWon"
    /\ IF hasWonBefore(deviceId[r])
       THEN /\ pc' = [pc EXCEPT ![r] = "remAlready"]
            /\ UNCHANGED luck
       ELSE \E rnd \in Randoms :
            /\ luck' = [luck EXCEPT ![r] = Luck(rnd, rate[r])]
            /\ pc' = [pc EXCEPT ![r] = IF Luck(rnd, rate[r]) THEN "claim" ELSE "remLost"]
    /\ UNCHANGED <<tokens, winners, deviceId, rate, claimed, txState, txToken,
                   txWin, failedAt, resp, failures>>
    /\ UNCHANGED cntVars

\* 3) UPDATE prize_tokens SET claimed_by = ? WHERE claimed_by IS NULL LIMIT 1;
\* affectedRows === 1; if (!claimed) no_prizes_left, remaining: 0
MySqlTryClaimPrize(r) ==
    /\ pc[r] = "claim"
    /\ IF getRemainingPrizes > 0
       THEN \E t \in {u \in DOMAIN tokens : tokens[u] = NULL} :
            /\ tokens' = [tokens EXCEPT ![t] = deviceId[r]]
            /\ txToken' = [txToken EXCEPT ![r] = t]
            /\ claimed' = [claimed EXCEPT ![r] = TRUE]
            /\ pc' = [pc EXCEPT ![r] = "insert"]
            /\ UNCHANGED resp
       ELSE /\ claimed' = [claimed EXCEPT ![r] = FALSE]
            /\ resp' = [resp EXCEPT ![r] = Json(FALSE, "no_prizes_left", 0)]
            /\ pc' = [pc EXCEPT ![r] = "done"]
            /\ UNCHANGED <<tokens, txToken>>
    /\ UNCHANGED <<winners, deviceId, rate, luck, txState, txWin, failedAt,
                   failures>>
    /\ UNCHANGED cntVars

\* 4) INSERT IGNORE INTO winners (device_id) VALUES (?)
MySqlInsertIgnore(r) ==
    /\ pc[r] = "insert"
    /\ txWin' = [txWin EXCEPT ![r] = InsertsRow(deviceId[r])]
    /\ winners' = CommitWinners(deviceId[r], InsertsRow(deviceId[r]))
    /\ pc' = [pc EXCEPT ![r] = "remWon"]
    /\ UNCHANGED <<tokens, deviceId, rate, luck, claimed, txState, txToken,
                   failedAt, resp, failures>>
    /\ UNCHANGED cntVars

\* prize_tokens after the catch block: it issues no query
TokensAfterCatch(r) == tokens

\* catch (e) { 500 internal_error }
MySqlCatch(r) ==
    /\ pc[r] = "catch"
    /\ tokens' = TokensAfterCatch(r)
    /\ resp' = [resp EXCEPT ![r] = ErrorJson(500, "internal_error")]
    /\ pc' = [pc EXCEPT ![r] = "done"]
    /\ UNCHANGED <<winners, deviceId, rate, luck, claimed, txState, txToken,
                   txWin, failedAt, failures>>
    /\ UNCHANGED cntVars

NextMySql ==
    \E r \in Requests :
        \/ Receive(r)
        \/ MySqlCheckPriorWin(r)
        \/ RespondAlreadyWinner(r)
        \/ RespondLost(r)
        \/ MySqlTryClaimPrize(r)
        \/ MySqlInsertIgnore(r)
        \/ RespondWon(r)
        \/ ConnectRejects(r)
        \/ StoreFailure(r)
        \/ MySqlCatch(r)

\* the MySQL variant, store failures possible
SpecMySql == Init /\ [][NextMySql]_vars

\* ----------------------------------- count-then-insert variant (part_002)
\* Every query is sent to the pool and committed on its own.  The table is
\* winners(device_id UNIQUE, won); a second INSERT of a device_id throws.

MAX_PRIZES == 10
\* Math.random() < 0.3, in hundredths
WIN_CHANCE == 30

\* countWinners(): SELECT COUNT(*) FROM winners WHERE won = true
countWinners ==
    cntPrior + Cardinality({d \in Devices : cntWinners[d] = "won"})

\* the guard with > : the request that reads MAX_PRIZES still draws
NoPrizesLeftAbove(count) == count > MAX_PRIZES

\* if (winnersCount >= MAX_PRIZES)
NoPrizesLeftAt(count) == count >= MAX_PRIZES

\* the table after earlier draws: up to MAX_PRIZES won rows of other devices
CountInit ==
    /\ tokens = << >>
    /\ winners = [d \in Devices |-> 0]
    /\ pc = [r \in Requests |-> "idle"]
    /\ deviceId = [r \in Requests |-> ""]
    /\ rate = [r \in Requests |-> 0]
    /\ luck = [r \in Requests |-> FALSE]
    /\ claimed = [r \in Requests |-> FALSE]
    /\ txState = [r \in Requests |-> "none"]
    /\ txToken = [r \in Requests |-> 0]
    /\ txWin = [r \in Requests |-> FALSE]
    /\ failedAt = [r \in Requests |-> "none"]
    /\ resp = [r \in Requests |-> NoResp]
    /\ failures = 0
    /\ cntWinners = [d \in Devices |-> "none"]
    /\ cntPc = [r \in Requests |-> "idle"]
    /\ cntDeviceId = [r \in Requests |-> ""]
    /\ winnersCount = [r \in Requests |-> 0]
    /\ won = [r \in Requests |-> FALSE]
    /\ cntResp = [r \in Requests |-> NoResp]
    /\ cntPrior \in (MAX_PRIZES - 1)..MAX_PRIZES

\* if (!deviceId) { ok:false, "Falta deviceId" }; else the prev query is sent
CountReceive(r) ==
    /\ cntPc[r] = "idle"
    /\ IF r = 1 THEN TRUE ELSE cntPc[r - 1] # "idle"
    /\ \E d \in DeviceInputs :
        IF InvalidDeviceId(d)
        THEN /\ cntResp' = [cntResp EXCEPT ![r] = ErrorJson(200, "Falta deviceId")]
             /\ cntPc' = [cntPc EXCEPT ![r] = "done"]
             /\ UNCHANGED cntDeviceId
        ELSE /\ cntDeviceId' = [cntDeviceId EXCEPT ![r] = d]
             /\ cntPc' = [cntPc EXCEPT ![r] = "prev"]
             /\ UNCHANGED cntResp
    /\ UNCHANGED <<cntWinners, cntPrior, winnersCount, won>>
    /\ UNCHANGED pgVars

\* SELECT won FROM winners WHERE device_id = $1; prev.rows.length > 0
CountPrev(r) ==
    /\ cntPc[r] = "prev"
    /\ IF cntWinners[cntDeviceId[r]] # "none"
       THEN /\ won' = [won EXCEPT ![r] = (cntWinners[cntDeviceId[r]] = "won")]
            /\ cntPc' = [cntPc EXCEPT ![r] = "countAlready"]
       ELSE /\ cntPc' = [cntPc EXCEPT ![r] = "count"]
            /\ UNCHANGED won
    /\ UNCHANGED <<cntWinners, cntPrior, cntDeviceId, winnersCount, cntResp>>
    /\ UNCHANGED pgVars

\* { won: prev.rows[0].won, remaining: MAX_PRIZES - countWinners(), already_winner }
CountRespondAlready(r) ==
    /\ cntPc[r] = "countAlready"
    /\ cntResp' = [cntResp EXCEPT ![r] =
                      Json(won[r], "already_winner", MAX_PRIZES - countWinners)]
    /\ cntPc' = [cntPc EXCEPT ![r] = "done"]
    /\ UNCHANGED <<cntWinners, cntPrior, cntDeviceId, winnersCount, won>>
    /\ UNCHANGED pgVars

\* const winnersCount = await countWinners(); the guard and the draw follow
\* in the same turn, the INSERT is the next query
CountRead(r) ==
    /\ cntPc[r] = "count"
    /\ winnersCount' = [winnersCount EXCEPT ![r] = countWinners]
    /\ IF NoPrizesLeftAt(countWinners)
       THEN /\ cntPc' = [cntPc EXCEPT ![r] = "insertLost"]
            /\ UNCHANGED won
       ELSE \E rnd \in Randoms :
            /\ won' = [won EXCEPT ![r] = rnd < WIN_CHANCE]
            /\ cntPc' = [cntPc EXCEPT ![r] = "insert"]
    /\ UNCHANGED <<cntWinners, cntPrior, cntDeviceId, cntResp>>
    /\ UNCHANGED pgVars

\* INSERT (deviceId, false); no_prizes_left, remaining 0.  A row of the
\* device_id already there: the INSERT throws, catch answers "Error en servidor"
CountInsertLost(r) ==
    /\ cntPc[r] = "insertLost"
    /\ IF cntWinners[cntDeviceId[r]] = "none"
       THEN /\ cntWinners' = [cntWinners EXCEPT ![cntDeviceId[r]] = "lost"]
            /\ cntResp' = [cntResp EXCEPT ![r] = Json(FALSE, "no_prizes_left", 0)]
       ELSE /\ cntResp' = [cntResp EXCEPT ![r] = ErrorJson(200, "Error en servidor")]
            /\ UNCHANGED cntWinners
    /\ cntPc' = [cntPc EXCEPT ![r] = "done"]
    /\ UNCHANGED <<cntPrior, cntDeviceId, winnersCount, won>>
    /\ UNCHANGED pgVars

\* INSERT (deviceId, won); the count for the answer is the next query
CountInsert(r) ==
    /\ cntPc[r] = "insert"
    /\ IF cntWinners[cntDeviceId[r]] = "none"
       THEN /\ cntWinners' = [cntWinners EXCEPT ![cntDeviceId[r]] =
                                  IF won[r] THEN "won" ELSE "lost"]
            /\ cntPc' = [cntPc EXCEPT ![r] = "countAfter"]
            /\ UNCHANGED cntResp
       ELSE /\ cntResp' = [cntResp EXCEPT ![r] = ErrorJson(200, "Error en servidor")]
            /\ cntPc' = [cntPc EXCEPT ![r] = "done"]
            /\ UNCHANGED cntWinners
    /\ UNCHANGED <<cntPrior, cntDeviceId, winnersCount, won>>
    /\ UNCHANGED pgVars

\* { won, remaining: MAX_PRIZES - countWinners() }
CountRespond(r) ==
    /\ cntPc[r] = "countAfter"
    /\ cntResp' = [cntResp EXCEPT ![r] = Json(won[r], "", MAX_PRIZES - countWinners)]
    /\ cntPc' = [cntPc EXCEPT ![r] = "done"]
    /\ UNCHANGED <<cntWinners, cntPrior, cntDeviceId, winnersCount, won>>
    /\ UNCHANGED pgVars

\* the awaits of the try block of part_002
CountQueryStages ==
    {"prev", "countAlready", "count", "insertLost", "insert", "countAfter"}

\* an awaited query throws without effect; catch answers "Error en servidor"
CountStoreFailure(r) ==
    /\ cntPc[r] \in CountQueryStages
    /\ failures < MaxFailures
    /\ failures' = failures + 1
    /\ failedAt' = [failedAt EXCEPT ![r] = cntPc[r]]
    /\ cntResp' = [cntResp EXCEPT ![r] = ErrorJson(200, "Error en servidor")]
    /\ cntPc' = [cntPc EXCEPT ![r] = "done"]
    /\ UNCHANGED <<cntWinners, cntPrior, cntDeviceId, winnersCount, won>>
    /\ UNCHANGED <<tokens, winners, pc, deviceId, rate, luck, claimed, txState,
                   txToken, txWin, resp>>

NextCount ==
    \E r \in Requests :
        \/ CountStoreFailure(r)
        \/ CountReceive(r)
        \/ CountPrev(r)
        \/ CountRespondAlready(r)
        \/ CountRead(r)
        \/ CountInsertLost(r)
        \/ CountInsert(r)
        \/ CountRespond(r)

\* the count-then-insert variant
SpecCount == CountInit /\ [][NextCount]_vars

\* the continuation of request r after an await: the event loop runs it once
\* its query has returned, and the store answers every query that is not
\* waiting for another transaction
HandlerStep(r) ==
    \/ CheckPriorWin(r)
    \/ RespondAlreadyWinner(r)
    \/ RespondLost(r)
    \/ Begin(r)
    \/ tryClaimPrize(r)
    \/ RollbackNoPrize(r)
    \/ InsertWinner(r)
    \/ Commit(r)
    \/ RespondWon(r)
    \/ CatchRollback(r)
    \/ CatchRollbackRejects(r)

\* store failures possible, every handler keeps running
FairSpec == Spec /\ \A r \in Requests : WF_vars(HandlerStep(r))

\* ------------------------------------------------------------ vocabulary
Issued == {r \in Requests : pc[r] # "idle"}
Done == {r \in Requests : pc[r] = "done"}
\* handlers that have ended: answered, or rejected without an answer
Ended == {r \in Requests : pc[r] \in {"done", "rejected"}}
Quiescent == Issued = Ended
Won(r) == resp[r].status = 200 /\ resp[r].won
NoPrizesLeft(r) == resp[r].status = 200 /\ resp[r].reason = "no_prizes_left"
InternalError(r) == resp[r].status = 500 /\ resp[r].error = "internal_error"
ClaimedTokens == {t \in DOMAIN tokens : tokens[t] # NULL}

RECURSIVE RowCount(_)
RowCount(S) ==
    IF S = {} THEN 0
    ELSE LET d == CHOOSE x \in S : TRUE IN winners[d] + RowCount(S \ {d})
\* number of rows of winners
WinnerRows == RowCount(Devices)
NumTokens == Cardinality(DOMAIN tokens)
NoFailure == \A r \in Requests : failedAt[r] = "none"
Min(a, b) == IF a < b THEN a ELSE b

TypeOK ==
    /\ \A t \in DOMAIN tokens : tokens[t] \in Devices \cup {NULL}
    /\ \A d \in Devices : winners[d] \in Nat
    /\ failures \in 0..MaxFailures

\* ================================================================ claims

\* C1: for every identity d, at most one request for d ever receives the
\* response won:true, whatever the interleaving of the requests.
\* (Refuted: two in-flight requests of one identity both pass hasWonBefore
\* and each claims a token.)
AtMostOneWin ==
    \A d \in Devices :
        Cardinality({r \in Requests : Won(r) /\ deviceId[r] = d}) <= 1

\* C2: in every reachable state the number of requests answered won:true is
\* at most the number N of seeded tokens, each of them backed by a claimed
\* token of its own, and the number of claimed tokens is at most N.
PoolCap ==
    /\ Cardinality({r \in Requests : Won(r)}) <= Cardinality(ClaimedTokens)
    /\ Cardinality(ClaimedTokens) <= NumTokens
    /\ Cardinality({r \in Requests : Won(r)}) <= NumTokens

\* the pool is used up: every token won, and a further request turned away
PoolCapWitness ==
    /\ Cardinality({r \in Requests : Won(r)}) = NumTokens
    /\ \E q \in Requests : NoPrizesLeft(q)

\* requests whose tryClaimPrize has returned
Attempted == {r \in Requests : txState[r] # "none" /\ pc[r] # "claim"}

\* C3: when requests race in tryClaimPrize, no token is claimed by two of
\* them; absent store failure exactly min(K, N) of K attempts return true,
\* so with one token exactly one attempt returns true and the others false,
\* and the token ends claimed by the identity whose call returned true.
NoDoubleClaim ==
    /\ \A r, q \in Requests :
        (r # q /\ txState[r] = "open" /\ txState[q] = "open" /\ txToken[r] # 0)
            => txToken[r] # txToken[q]
    /\ \A r \in Requests :
        (txState[r] = "open" /\ txToken[r] # 0) => tokens[txToken[r]] = NULL
    /\ failures = 0 =>
        /\ Cardinality({r \in Attempted : claimed[r]})
              = Min(Cardinality(Attempted), NumTokens)
        /\ \A r \in Attempted :
              (claimed[r] /\ txState[r] = "committed")
                  => tokens[txToken[r]] = deviceId[r]
        /\ \A r \in Attempted :
              (~claimed[r] /\ pc[r] = "done") => NoPrizesLeft(r)

\* one token, two racing attempts: one holds the token in its open
\* transaction, the other has just been told false
NoDoubleClaimWitness ==
    /\ NumTokens = 1
    /\ failures = 0
    /\ \E r, q \in Requests :
        /\ txState[r] = "open" /\ claimed[r] /\ txToken[r] = 1
        /\ pc[q] = "rollbackNoPrize" /\ ~claimed[q]

\* C4: in every committed state no identity is the claimed_by of more than
\* one prize_tokens row.
\* (Refuted: see C1; each of the two requests commits a token for d.)
NoSecondToken ==
    \A d \in Devices :
        Cardinality({t \in DOMAIN tokens : tokens[t] = d}) <= 1

\* C5: whenever no draw request is in flight and none has crashed, the
\* number of claimed tokens equals the number of winners rows.
\* (Refuted: see C1; the second insert of d is a no-op, its token stays.)
PoolRegistryCorrespondence ==
    (Quiescent /\ NoFailure) => Cardinality(ClaimedTokens) = WinnerRows

\* requests that passed the gate at rate 1.0 from pairwise distinct identities
DepletionRaceSetting ==
    /\ Quiescent
    /\ \A r \in Issued : resp[r].status # 400 /\ rate[r] >= 100
    /\ \A r, q \in Issued : r # q => deviceId[r] # deviceId[q]
    /\ Cardinality(Issued) > NumTokens

\* C6: with N free tokens and K > N distinct identities each issuing one
\* request at rate 1.0, and no store failure, exactly N requests return
\* won:true, the other K-N return no_prizes_left, and at the end remaining
\* is 0 and winners holds exactly N rows.
DepletionRace ==
    DepletionRaceSetting =>
        /\ Cardinality({r \in Issued : Won(r)}) = NumTokens
        /\ Cardinality({r \in Issued : NoPrizesLeft(r)})
              = Cardinality(Issued) - NumTokens
        /\ \A r \in Issued : NoPrizesLeft(r) => resp[r].remaining = 0
        /\ getRemainingPrizes = 0
        /\ WinnerRows = NumTokens

DepletionRaceWitness ==
    /\ DepletionRaceSetting
    /\ \E r, q \in Issued : Won(r) /\ NoPrizesLeft(q)

\* C7: a request is answered no_prizes_left only when the pool has no free
\* token, so the pool never ends with a free token after some request was
\* answered no_prizes_left.
\* (Refuted: SKIP LOCKED returns no row while the only free token is locked
\* by a transaction that later rolls back.)
NoFreeTokenAfterNoPrizesLeft ==
    (Quiescent /\ \E r \in Requests : NoPrizesLeft(r)) => getRemainingPrizes = 0

\* requests in which a query threw between BEGIN and COMMIT, now ended
AbortedInTransaction ==
    {r \in Requests : failedAt[r] \in {"claim", "insert", "commit"} /\ r \in Ended}

\* C8: a store failure in the claim, the winner insert or the commit rolls
\* the transaction back and is answered internal_error, and every committed
\* row of prize_tokens and winners is the write of another, committed request.
\* (Refuted: when the ROLLBACK of the catch block throws as well, no
\* response is sent.)
AtomicAbort ==
    \A r \in AbortedInTransaction :
        /\ InternalError(r)
        /\ txState[r] = "aborted"
        /\ \A t \in ClaimedTokens :
              \E q \in Requests \ {r} :
                  txState[q] = "committed" /\ txToken[q] = t /\ deviceId[q] = tokens[t]
        /\ \A d \in Devices :
              winners[d] <= Cardinality({q \in Requests \ {r} :
                  txState[q] = "committed" /\ txWin[q] /\ deviceId[q] = d})

\* supporting C8: the part of it that holds, the aborted request has
\* written nothing, answered or not
AbortedWritesNothing ==
    \A r \in AbortedInTransaction :
        /\ txState[r] = "aborted"
        /\ pc[r] = "done" => InternalError(r)
        /\ \A t \in ClaimedTokens :
              \E q \in Requests \ {r} :
                  txState[q] = "committed" /\ txToken[q] = t /\ deviceId[q] = tokens[t]
        /\ \A d \in Devices :
              winners[d] <= Cardinality({q \in Requests \ {r} :
                  txState[q] = "committed" /\ txWin[q] /\ deviceId[q] = d})

\* requests whose winner insert found the row present and did nothing
InsertWasNoOp ==
    {r \in Requests : /\ pc[r] \in {"commit", "remWon", "done"}
                      /\ claimed[r] /\ ~txWin[r] /\ failedAt[r] = "none"}

\* C9: recording a win for an identity that has a winners row is a silent
\* no-op: there is never more than one row, committed or being inserted, for
\* an identity, and a request whose insert was a no-op is answered won:true,
\* not an error.
IdempotentRegistry ==
    /\ \A d \in Devices :
        winners[d] + Cardinality({r \in Requests :
            txState[r] = "open" /\ txWin[r] /\ deviceId[r] = d}) <= 1
    /\ \A r \in InsertWasNoOp :
        /\ winners[deviceId[r]] = 1
        /\ pc[r] = "done" => Won(r)

IdempotentRegistryWitness ==
    \E r \in InsertWasNoOp : pc[r] = "done" /\ winners[deviceId[r]] = 1

\* requests that lost the gate
LostGate ==
    {r \in Requests : \/ pc[r] = "remLost"
                      \/ failedAt[r] = "remLost"
                      \/ (resp[r].status = 200 /\ ~resp[r].won /\ resp[r].reason = "")}

\* C10: a request that loses the gate (every request when rate <= 0) never
\* opens a transaction nor writes a row and is answered won:false without a
\* reason; when every request has rate <= 0 the N tokens all stay free and
\* each answer reports remaining N.
GateIndependence ==
    /\ \A r \in LostGate :
        /\ ~luck[r] /\ ~claimed[r]
        /\ txState[r] = "none" /\ txToken[r] = 0 /\ ~txWin[r]
        /\ (pc[r] = "done" /\ failedAt[r] = "none")
              => \E n \in 0..NumTokens : resp[r] = Json(FALSE, "", n)
    /\ \A r \in Issued :
        (rate[r] <= 0 /\ resp[r].status # 400 /\ pc[r] \notin {"hasWon", "remAlready"}
            /\ failedAt[r] \notin {"connect", "hasWon", "remAlready"})
            => r \in LostGate \/ resp[r].reason = "already_winner"
    /\ (\A r \in Issued : rate[r] <= 0) =>
        /\ getRemainingPrizes = NumTokens
        /\ WinnerRows = 0
        /\ \A r \in Issued :
              resp[r].status = 200 => resp[r] = Json(FALSE, "", NumTokens)

\* two tokens, two requests at rate 0, both answered with remaining 2
GateIndependenceWitness ==
    /\ NumTokens = 2
    /\ \A r \in Requests :
        rate[r] <= 0 /\ pc[r] = "done" /\ resp[r] = Json(FALSE, "", 2)

\* requests on the already_winner path
OnAlreadyWinnerPath ==
    {r \in Requests : \/ pc[r] = "remAlready"
                      \/ failedAt[r] = "remAlready"
                      \/ resp[r].reason = "already_winner"}

\* C11: a draw request for d whose prior-win check runs once a winners row
\* for d is committed (every request that starts after the commit) goes to
\* the already_winner answer in its next step, without changing prize_tokens
\* or winners; it never draws the gate, opens a transaction or claims, and
\* unless the connect or a query of it throws it is answered won:false,
\* already_winner.
PriorWinShortCircuit ==
    /\ [](\A r \in OnAlreadyWinnerPath :
            /\ winners[deviceId[r]] > 0
            /\ ~luck[r] /\ ~claimed[r]
            /\ txState[r] = "none" /\ txToken[r] = 0 /\ ~txWin[r]
            /\ (pc[r] = "done" /\ failedAt[r] = "none")
                  => \E n \in 0..NumTokens : resp[r] = Json(FALSE, "already_winner", n))
    /\ [][\A r \in Requests :
            (pc[r] = "hasWon" /\ winners[deviceId[r]] > 0 /\ pc'[r] # pc[r])
                => /\ pc'[r] \in {"remAlready", "catch", "rejected"}
                   /\ tokens' = tokens /\ winners' = winners]_vars
    /\ [][\A r \in Requests :
            (pc[r] = "remAlready" /\ pc'[r] = "done")
                => /\ resp'[r] = Json(FALSE, "already_winner", getRemainingPrizes)
                   /\ tokens' = tokens /\ winners' = winners]_vars

\* a request answered already_winner after another request of its identity won
PriorWinShortCircuitWitness ==
    \E r, q \in Requests :
        /\ r # q /\ deviceId[r] = deviceId[q]
        /\ Won(q)
        /\ pc[r] = "done" /\ resp[r].reason = "already_winner"

\* C12: the set of token ids never changes, and a committed claimed_by is
\* never cleared or changed in any later state, so the number of free
\* tokens never increases.
ClaimsPermanent ==
    [][/\ DOMAIN tokens' = DOMAIN tokens
       /\ \A t \in DOMAIN tokens : tokens[t] # NULL => tokens'[t] = tokens[t]
       /\ getRemainingPrizes' <= getRemainingPrizes]_vars

\* a token is claimed, and a request that came after has run its claim
ClaimsPermanentWitness ==
    \E t \in ClaimedTokens : \E r \in Requests :
        /\ pc[r] = "done" /\ txState[r] # "none" /\ txToken[r] # t
        /\ deviceId[r] # tokens[t]

\* C17: in every committed state every identity with a winners row is the
\* claimed_by of at least one prize_tokens row, so the number of winners
\* rows never exceeds the number of claimed tokens.
WinnersHaveTokens ==
    /\ \A d \in Devices :
        winners[d] > 0 => \E t \in DOMAIN tokens : tokens[t] = d
    /\ WinnerRows <= Cardinality(ClaimedTokens)

\* a winners row has been committed together with its token
WinnersHaveTokensWitness ==
    \E r \in Requests :
        /\ txState[r] = "committed" /\ txWin[r]
        /\ winners[deviceId[r]] = 1 /\ tokens[txToken[r]] = deviceId[r]

\* C18: whenever a draw request is answered internal_error it has left
\* prize_tokens and winners unchanged: it has committed nothing, whichever
\* query threw, the remaining-count query after COMMIT included.
\* (Refuted: a throw of getRemainingPrizes after COMMIT is answered 500
\* while the claim and the winners row are committed.)
InternalErrorLeavesNoTrace ==
    \A r \in Requests : InternalError(r) => txState[r] # "committed"

\* C19: whenever a request for d has been answered won:true, the committed
\* state holds a winners row for d and a token with claimed_by = d, and the
\* remaining it reported is at most N-1.
WonIsCommitted ==
    \A r \in Requests :
        Won(r) =>
            /\ winners[deviceId[r]] >= 1
            /\ \E t \in DOMAIN tokens : tokens[t] = deviceId[r]
            /\ tokens[txToken[r]] = deviceId[r]
            /\ resp[r].remaining \in 0..(NumTokens - 1)

\* a win out of two tokens that reported the other one as remaining
WonIsCommittedWitness ==
    /\ NumTokens = 2
    /\ \E r \in Requests : Won(r) /\ resp[r].remaining = 1

\* the four business outcomes
BusinessOutcome(rs) ==
    \E n \in 0..NumTokens :
        \/ rs = Json(FALSE, "already_winner", n)
        \/ rs = Json(FALSE, "", n)
        \/ rs = Json(FALSE, "no_prizes_left", 0)
        \/ rs = Json(TRUE, "", n)

\* C13: every draw request with a valid identity terminates with exactly
\* one response; when no store failure hit it, the response is one of the
\* four business outcomes.
\* (Refuted: a handler whose pool.connect() rejects, or whose ROLLBACK in
\* the catch block throws, ends without any response.)
EveryRequestAnswered ==
    \A r \in Ended :
        /\ resp[r] # NoResp
        /\ (failedAt[r] = "none" /\ resp[r].status # 400) => BusinessOutcome(resp[r])

\* supporting C13: the part of it that holds.  Every handler that has
\* started ends, no set of requests blocks for ever; a response is sent at
\* most once, never changed, and is a business outcome when nothing threw.
HandlersTerminate ==
    /\ \A r \in Requests : (pc[r] # "idle") ~> (r \in Ended)
    /\ [](\A r \in Requests :
            /\ (pc[r] = "done") <=> (resp[r] # NoResp)
            /\ (pc[r] = "done" /\ failedAt[r] = "none" /\ resp[r].status # 400)
                  => BusinessOutcome(resp[r]))
    /\ [][\A r \in Requests : resp[r] # NoResp => resp'[r] = resp[r]]_vars

\* C14: with a pool of one token and requests issued one after the other, a
\* request of d1 that passes the gate is answered won:true with remaining 0;
\* every later request of d1 is answered already_winner with remaining 0, and
\* every later request of another identity that passes the gate is answered
\* no_prizes_left with remaining 0.
SequentialExhaustion ==
    NumTokens = 1 =>
        \A r \in Requests :
            /\ (pc[r] = "done" /\ luck[r]
                  /\ \A q \in Requests : q < r => ~Won(q))
                  => resp[r] = Json(TRUE, "", 0)
            /\ Won(r) =>
                \A q \in Requests : (q > r /\ pc[q] = "done") =>
                    /\ deviceId[q] = deviceId[r]
                          => resp[q] = Json(FALSE, "already_winner", 0)
                    /\ (deviceId[q] \in Devices \ {deviceId[r]} /\ luck[q])
                          => resp[q] = Json(FALSE, "no_prizes_left", 0)
                    /\ (deviceId[q] \in Devices \ {deviceId[r]} /\ ~luck[q])
                          => resp[q] = Json(FALSE, "", 0)

\* d1 won the only token, and a later request passed the gate and found none
SequentialExhaustionWitness ==
    /\ NumTokens = 1
    /\ \E r, q \in Requests :
        /\ r < q /\ Won(r) /\ resp[r].remaining = 0
        /\ luck[q] /\ resp[q] = Json(FALSE, "no_prizes_left", 0)

\* requests of the MySQL variant in which the INSERT IGNORE threw, after
\* tryClaimPrize had returned true
FailedBeforeInsert == {r \in Requests : failedAt[r] = "insert"}

\* C16: in the MySQL variant, when a request fails after tryClaimPrize
\* returned true and before the INSERT IGNORE completes, its token stays
\* claimed by its identity and no winners row exists for that identity; the
\* pool cap holds and the number of claimed tokens exceeds the number of
\* winners rows.
\* The row is looked for at the moment the INSERT IGNORE throws.
\* (Refuted: a second request of the same identity that passed hasWonBefore
\* before either inserted has a token of its own and has inserted the row.)
CrashWindow ==
    /\ [](\A r \in FailedBeforeInsert :
            /\ claimed[r] /\ tokens[txToken[r]] = deviceId[r]
            /\ Cardinality(ClaimedTokens) <= NumTokens
            /\ Cardinality(ClaimedTokens) > WinnerRows)
    /\ [][\A r \in Requests :
            (failedAt[r] = "none" /\ failedAt'[r] = "insert")
                => winners'[deviceId[r]] = 0]_vars

\* supporting C16: the part of it that holds.  The token stays claimed, the
\* failed request has written no row, a row of its identity is the write of
\* another request of that identity, and claimed tokens exceed winners rows.
CrashLeavesTokenClaimed ==
    \A r \in FailedBeforeInsert :
        /\ claimed[r] /\ tokens[txToken[r]] = deviceId[r]
        /\ ~txWin[r]
        /\ pc[r] = "done" => InternalError(r)
        /\ winners[deviceId[r]] > 0
              => \E q \in Requests \ {r} : deviceId[q] = deviceId[r] /\ txWin[q]
        /\ Cardinality(ClaimedTokens) <= NumTokens
        /\ Cardinality(ClaimedTokens) > WinnerRows

\* requests of the count-then-insert variant that inserted a won row
WonInserters ==
    {r \in Requests :
        /\ won[r]
        /\ \/ cntPc[r] = "countAfter"
           \/ cntPc[r] = "done" /\ failedAt[r] = "countAfter"
           \/ cntPc[r] = "done" /\ cntResp[r].ok /\ cntResp[r].reason = ""}

\* C15: in the count-then-insert variant the count and the insert are two
\* steps: every request that inserts a won row has read a count below
\* MAX_PRIZES, yet the rows it counted may be stale, so the number of won
\* rows is only bounded by MAX_PRIZES - 1 plus the number of such requests
\* and can exceed MAX_PRIZES (the witness).
CountThenInsertRace ==
    /\ \A r \in WonInserters :
        /\ winnersCount[r] < MAX_PRIZES
        /\ cntWinners[cntDeviceId[r]] = "won"
    /\ countWinners = cntPrior + Cardinality(WonInserters)
    /\ WonInserters # {} =>
        countWinners <= MAX_PRIZES - 1 + Cardinality(WonInserters)
    /\ WonInserters = {} => countWinners <= MAX_PRIZES

\* two requests of distinct devices each read a count below MAX_PRIZES and
\* each inserted a won row: more than MAX_PRIZES rows are won
CountThenInsertRaceWitness ==
    /\ countWinners > MAX_PRIZES
    /\ \E r, q \in WonInserters :
        /\ cntDeviceId[r] # cntDeviceId[q]
        /\ winnersCount[r] < MAX_PRIZES /\ winnersCount[q] < MAX_PRIZES

====
